---- MODULE Spec2Model ----
(***************************************************************************)
(* Model of the plant-disease HTTP service of src/main.py: the /predict/   *)
(* pipeline (validate, upload, classify, persist, advise, update), the     *)
(* per-user GET and DELETE of /scanned_data/{user_id}, the bucket and the  *)
(* 'predictions' collection they share.  A handler is split where it calls *)
(* an external service (bucket, document store, advisor).  The /predict/   *)
(* handler never suspends (every call it makes blocks, the awaited         *)
(* generate_treatment included), so a process serves one /predict/ at a    *)
(* time; GET and DELETE requests reach the shared store from other         *)
(* instances of the service between any two of its calls.                  *)
(***************************************************************************)
EXTENDS Integers, Sequences, FiniteSets, TLC

\* Number of /predict/ requests that arrive in a behaviour.
MaxPredict == 1

----------------------------------------------------------------------------
\* Program constants

class_names ==
    [mango  |-> <<"Anthracnose", "Bacterial Canker", "Cutting Weevil", "Die Back",
                  "Gall Midge", "Healthy", "Powdery Mildew", "Sooty Mould">>,
     tomato |-> <<"Bacterial_spot", "Early_blight", "Late_blight", "Leaf_Mold",
                  "Septoria_leaf_spot", "Spider_mites", "Target_Spot",
                  "Tomato_Yellow_Leaf_Curl_Virus", "Tomato_mosaic_virus", "healthy">>,
     chili  |-> <<"Bacterial_spot", "Healthy", "Late_blight", "Leaf_Mold">>]

BUCKET_NAME == "plantcare-api-bucket"

\* Python's None.
None == "None"

\* The three classifiers loaded at start-up, named after their globals.
mango_model  == "mango_model"
tomato_model == "tomato_model"
chili_model  == "chili_model"

\* The classifier that was loaded for a plant type.
LoadedModel == [mango |-> mango_model, tomato |-> tomato_model, chili |-> chili_model]

\* A probability vector (in percent) of length n that peaks at position k.
Peak(n, k, p) == [i \in 1..n |-> IF i = k THEN p ELSE 1]

\* What model.predict may return: a classifier answers with a vector over
\* its own label set (one entry per label it was trained on).
model_predict(model) ==
    IF model = mango_model THEN {Peak(8, 8, 58)}
    ELSE IF model = tomato_model THEN {Peak(10, 1, 71), Peak(10, 10, 64)}
    ELSE {Peak(4, 2, 88), Peak(4, 4, 52)}

----------------------------------------------------------------------------
\* Inputs

Users      == {"u1", "u2"}
PlantTypes == {"mango", "tomato", "chili", "rose"}
Dates      == {"2024:12:01"}
AdviceText == "advice text"

\* What the outbound advisory step may do.
AdvisorOutcomes ==
    {"configure_raises", "model_raises", "generate_raises",
     "empty_response", "text_raises", "text"}

----------------------------------------------------------------------------
\* Python values: a call returns a value or raises an exception

Return(v) == [raised |-> FALSE, value |-> v]
Raise(e)  == [raised |-> TRUE, exc |-> e]

\* An exception object; HTTPException(status_code, detail) is one of them
\* (fastapi's HTTPException derives from Exception).
Exception(type, text) == [type |-> type, status_code |-> 0, detail |-> text]
HTTPException(code, detail) ==
    [type |-> "HTTPException", status_code |-> code, detail |-> detail]

\* str(e): "<status>: <detail>" for an HTTPException, the message otherwise.
str(e) ==
    IF e.type = "HTTPException" THEN <<e.status_code, ": ", e.detail>>
    ELSE <<e.detail>>

\* What the framework sends for a handler's outcome: the returned
\* JSONResponse as 200, a raised HTTPException as its own status and detail.
http_response(outcome) ==
    IF outcome.raised
    THEN [status_code |-> outcome.exc.status_code,
          content |-> [detail |-> outcome.exc.detail]]
    ELSE [status_code |-> 200, content |-> outcome.value]

NoResponse == [status_code |-> 0, content |-> None]

\* np.argmax: the 0-based position of the first maximum.
argmax(v) ==
    (CHOOSE i \in 1..Len(v) :
        /\ \A j \in 1..Len(v) : v[j] <= v[i]
        /\ \A j \in 1..(i - 1) : v[j] < v[i]) - 1

\* list[i] for a 0-based, non-negative i: IndexError past the end.
list_index(list, i) ==
    IF i < Len(list) THEN Return(list[i + 1])
    ELSE Raise(Exception("IndexError", "list index out of range"))

\* uuid.uuid4(): the k-th identifier drawn while serving the n-th request,
\* unlike any other.
uuid4(n, k) == <<n, k>>

\* blob.public_url of the uploaded object.
public_url(blobname) == <<"https://storage.googleapis.com", BUCKET_NAME, blobname>>

----------------------------------------------------------------------------
\* The 'predictions' collection: a function from document id to document

\* document(id).set(data): create or overwrite the whole document.
doc_set(docs, id, data) ==
    [i \in DOMAIN docs \cup {id} |-> IF i = id THEN data ELSE docs[i]]

\* Mutant of doc_update: the fields are merged into the document whether or
\* not it exists (a set with merge), so a deleted document comes back.
doc_update_upsert(docs, id, fields) ==
    Return([i \in DOMAIN docs \cup {id} |->
              IF i = id
              THEN IF id \in DOMAIN docs
                   THEN [k \in DOMAIN docs[id] \cup DOMAIN fields |->
                           IF k \in DOMAIN fields THEN fields[k] ELSE docs[id][k]]
                   ELSE fields
              ELSE docs[i]])

\* document(id).update(fields): write the given fields of an existing
\* document; NotFound when there is no such document.
doc_update(docs, id, fields) ==
    IF id \in DOMAIN docs
    THEN Return([docs EXCEPT ![id] =
            [k \in DOMAIN docs[id] \cup DOMAIN fields |->
                IF k \in DOMAIN fields THEN fields[k] ELSE docs[id][k]]])
    ELSE Raise(Exception("NotFound", "no document to update"))

\* doc.reference.delete(): succeeds whether or not the document exists.
doc_delete(docs, id) == [i \in DOMAIN docs \ {id} |-> docs[i]]

\* Mutant of where_user_id: the filter is dropped, every document matches.
where_user_id_all(docs, user_id) == DOMAIN docs

\* collection.where('user_id', '==', user_id): the ids of the matches.
where_user_id(docs, user_id) == {i \in DOMAIN docs : docs[i].user_id = user_id}

\* doc.to_dict() with the added 'id' entry.
to_dict_with_id(docs, i) ==
    [id |-> i, user_id |-> docs[i].user_id, plant_type |-> docs[i].plant_type,
     disease |-> docs[i].disease, probability |-> docs[i].probability,
     image_url |-> docs[i].image_url, treatment |-> docs[i].treatment,
     scanned_data |-> docs[i].scanned_data]

----------------------------------------------------------------------------
\* State

VARIABLES
    arrived,      \* how many /predict/ requests have arrived
    req,          \* the /predict/ request being served, or the last one served:
                  \* its position, inputs, locals, what the advisor did for
                  \* it, and its response
    store,        \* the 'predictions' collection
    bucket,       \* the names of the blobs in the bucket
    advisor_log,  \* the requests whose generate_content call the advisor received
    del,          \* the DELETE /scanned_data/{user_id} request being served, or
                  \* the one just answered, until a /predict/ step follows it
    last_get,     \* the response of a GET /scanned_data/{user_id} that no
                  \* other step has followed yet
    history       \* whether the DELETE, and the last /predict/ response, had
                  \* no other request beside or after them, and how many
                  \* records the DELETE's user had when it began

vars == <<arrived, req, store, bucket, advisor_log, del, last_get, history>>

NoResult ==
    [user_id |-> None, plant_type |-> None, disease |-> None, probability |-> 0,
     image_url |-> None, treatment |-> None, scanned_data |-> None]

IdleRequest ==
    [pc |-> "idle", plant_type |-> None, user_id |-> None, image_url |-> None,
     model |-> None, predicted_class |-> 0, document_id |-> uuid4(0, 0),
     result |-> NoResult, advisor |-> None, response |-> NoResponse]

IdleDelete ==
    [pc |-> "idle", user_id |-> None, pending |-> {}, deleted_count |-> 0,
     response |-> NoResponse]

NoGet == [user_id |-> None, response |-> NoResponse]

\* A record left in the collection by an earlier run of the service.
EarlierRecord(user_id) ==
    [user_id |-> user_id, plant_type |-> "mango", disease |-> "Healthy",
     probability |-> 97, image_url |-> public_url(uuid4(0, 1)),
     treatment |-> AdviceText, scanned_data |-> "2024:11:30"]

\* The collection outlives the process: it starts empty or with a record of
\* an earlier run.
Init ==
    /\ arrived = 0
    /\ req = IdleRequest
    /\ store \in {<<>>, [i \in {uuid4(0, 2)} |-> EarlierRecord("u1")]}
    /\ bucket = IF store = <<>> THEN {} ELSE {uuid4(0, 1)}
    /\ advisor_log = {}
    /\ del = IdleDelete
    /\ last_get = NoGet
    /\ history = [deleteQuiet |-> FALSE, deleteFound |-> 0, predictQuiet |-> FALSE]

\* A delete of user_id's records is between its query and its response.
Deleting(user_id) == del.pc = "deleting" /\ del.user_id = user_id

\* A DELETE is no longer alone once a /predict/ step runs beside or after it.
Disturbed(h) == [h EXCEPT !.deleteQuiet = FALSE, !.deleteFound = 0]

\* Bookkeeping of a /predict/ step: the DELETE is no longer alone, an
\* answered DELETE and the last GET are no longer the latest requests.
PredictStep ==
    /\ history' = Disturbed(history)
    /\ del' = IF del.pc = "done" THEN IdleDelete ELSE del
    /\ last_get' = NoGet

----------------------------------------------------------------------------
\* POST /predict/

\* Mutant of result_dict: the record is created with an empty treatment
\* text in place of None.
result_dict_empty_text(user_id, plant_type, disease_name, probability, image_url, scanned_data) ==
    [user_id |-> user_id, plant_type |-> plant_type, disease |-> disease_name,
     probability |-> probability, image_url |-> image_url, treatment |-> "",
     scanned_data |-> scanned_data]

\* The result dict written to the store and, completed, sent as the response.
result_dict(user_id, plant_type, disease_name, probability, image_url, scanned_data) ==
    [user_id |-> user_id, plant_type |-> plant_type, disease |-> disease_name,
     probability |-> probability, image_url |-> image_url, treatment |-> None,
     scanned_data |-> scanned_data]

\* The model the handler runs for a plant type.
select_model(plant_type) ==
    IF plant_type = "mango" THEN mango_model ELSE tomato_model

\* Mutant of predict_except: the handler cleans up after a failure, deleting
\* the request's document and blob.
predict_except_rollback(q, e) ==
    /\ req' = [q EXCEPT
                 !.pc = "done",
                 !.response = http_response(Raise(HTTPException(500,
                                 <<"Error processing the image: ", str(e)>>)))]
    /\ store' = doc_delete(store, q.document_id)
    /\ bucket' = bucket \ {uuid4(arrived, 1)}
    /\ UNCHANGED advisor_log

\* The handler's except clause, for the request as it stands (q): log, and
\* answer 500 with the error's text.  Nothing the request has written is
\* touched.
predict_except(q, e) ==
    /\ req' = [q EXCEPT
                 !.pc = "done",
                 !.response = http_response(Raise(HTTPException(500,
                                 <<"Error processing the image: ", str(e)>>)))]
    /\ UNCHANGED <<store, bucket, advisor_log>>

\* Mutant of predict_Validate: the plant type is not checked on arrival, so
\* the request goes on to the upload.
predict_Validate_unchecked(plant_type, user_id) ==
    /\ req.pc \in {"idle", "done"}
    /\ arrived < MaxPredict
    /\ arrived' = arrived + 1
    /\ req' = [IdleRequest EXCEPT
                 !.pc = "upload",
                 !.plant_type = plant_type,
                 !.user_id = user_id]
    /\ history' = [Disturbed(history) EXCEPT !.predictQuiet = FALSE]
    /\ del' = IF del.pc = "done" THEN IdleDelete ELSE del
    /\ last_get' = NoGet
    /\ UNCHANGED <<store, bucket, advisor_log>>

\* A request arrives once the one before it is answered; an unknown plant
\* type is refused before the try block.
predict_Validate(plant_type, user_id) ==
    /\ req.pc \in {"idle", "done"}
    /\ arrived < MaxPredict
    /\ arrived' = arrived + 1
    /\ IF plant_type \notin DOMAIN class_names
       THEN req' = [IdleRequest EXCEPT
                      !.pc = "done",
                      !.plant_type = plant_type,
                      !.user_id = user_id,
                      !.response =
                          http_response(Raise(HTTPException(400, "Invalid plant type")))]
       ELSE req' = [IdleRequest EXCEPT
                      !.pc = "upload",
                      !.plant_type = plant_type,
                      !.user_id = user_id]
    /\ history' = [Disturbed(history) EXCEPT !.predictQuiet = FALSE]
    /\ del' = IF del.pc = "done" THEN IdleDelete ELSE del
    /\ last_get' = NoGet
    /\ UNCHANGED <<store, bucket, advisor_log>>

\* blob.upload_from_file succeeds: the blob is in the bucket.
predict_Upload ==
    /\ req.pc = "upload"
    /\ LET blobname == uuid4(arrived, 1) IN
         /\ bucket' = bucket \cup {blobname}
         /\ req' = [req EXCEPT !.pc = "classify",
                               !.image_url = public_url(blobname)]
    /\ UNCHANGED <<arrived, store, advisor_log>>
    /\ PredictStep

\* blob.upload_from_file raises.
predict_UploadFails ==
    /\ req.pc = "upload"
    /\ predict_except(req, Exception("upload", "upload failed"))
    /\ UNCHANGED arrived
    /\ PredictStep

\* Lines 110-115 and 128: select the model, run it, take the arg-max and its
\* label in the plant's label list.  predictions is what the selected model
\* answers.
classify(plant_type, model, predictions) ==
    LET predicted_class == argmax(predictions)
        labels == IF plant_type \in DOMAIN class_names
                  THEN Return(class_names[plant_type])
                  ELSE Raise(Exception("KeyError", plant_type))
        disease_name == IF labels.raised THEN labels
                        ELSE list_index(labels.value, predicted_class)
    IN IF disease_name.raised
       THEN disease_name
       ELSE Return([model |-> model,
                    predicted_class |-> predicted_class,
                    disease_name |-> disease_name.value,
                    probability |-> predictions[predicted_class + 1]])

\* Fetch the image back, decode it, run the model, pick the label and draw
\* the document id: no shared state is written between these.
predict_Classify ==
    /\ req.pc = "classify"
    /\ LET model == select_model(req.plant_type) IN
       \E predictions \in model_predict(model), scanned_data \in Dates :
         LET c == classify(req.plant_type, model, predictions) IN
           IF c.raised
           THEN predict_except(req, c.exc)
           ELSE /\ req' = [req EXCEPT
                             !.pc = "persist",
                             !.model = c.value.model,
                             !.predicted_class = c.value.predicted_class,
                             !.document_id = uuid4(arrived, 2),
                             !.result =
                                 result_dict(req.user_id, req.plant_type,
                                             c.value.disease_name,
                                             c.value.probability,
                                             req.image_url, scanned_data)]
                /\ UNCHANGED <<store, bucket, advisor_log>>
    /\ UNCHANGED arrived
    /\ PredictStep

\* The fetch, the decoding or the inference raises.
predict_ClassifyFails ==
    /\ req.pc = "classify"
    /\ predict_except(req, Exception("classify", "cannot fetch, decode or classify the image"))
    /\ UNCHANGED arrived
    /\ PredictStep

\* document(document_id).set(result).
predict_PersistInitial ==
    /\ req.pc = "persist"
    /\ store' = doc_set(store, req.document_id, req.result)
    /\ req' = [req EXCEPT !.pc = "advise"]
    /\ UNCHANGED <<arrived, bucket, advisor_log>>
    /\ PredictStep

\* document(document_id).set(result) raises.
predict_PersistInitialFails ==
    /\ req.pc = "persist"
    /\ predict_except(req, Exception("persist", "set failed"))
    /\ UNCHANGED arrived
    /\ PredictStep

\* generate_treatment: configure and the model's construction are outside
\* its try block; generate_content and the reading of .text are inside.
generate_treatment(outcome) ==
    IF outcome = "configure_raises"
    THEN Raise(Exception("advise", "advisor unavailable"))
    ELSE IF outcome = "model_raises"
    THEN Raise(Exception("advise", "advisor unavailable"))
    ELSE IF outcome \in {"generate_raises", "text_raises"}
    THEN Return("Error generating treatment suggestion.")
    ELSE IF outcome = "empty_response"
    THEN Return("No suggestion available.")
    ELSE Return(AdviceText)

\* await generate_treatment(...), then result['treatment'] = treatment_text.
predict_Advise ==
    /\ req.pc = "advise"
    /\ \E outcome \in AdvisorOutcomes :
         LET t == generate_treatment(outcome) IN
           IF t.raised
           THEN predict_except([req EXCEPT !.advisor = outcome], t.exc)
           ELSE /\ req' = [req EXCEPT !.pc = "update",
                                      !.advisor = outcome,
                                      !.result.treatment = t.value]
                /\ advisor_log' = advisor_log \cup {arrived}
                /\ UNCHANGED <<store, bucket>>
    /\ UNCHANGED arrived
    /\ PredictStep

\* Mutant of predict_PersistUpdate: the response is sent without the
\* treatment update having been written.
predict_PersistUpdate_unwritten ==
    /\ req.pc = "update"
    /\ req' = [req EXCEPT !.pc = "done",
                          !.response = http_response(Return(req.result))]
    /\ history' = [Disturbed(history) EXCEPT !.predictQuiet = ~Deleting(req.user_id)]
    /\ del' = IF del.pc = "done" THEN IdleDelete ELSE del
    /\ last_get' = NoGet
    /\ UNCHANGED <<arrived, store, bucket, advisor_log>>

\* document(document_id).update({'treatment': treatment_text}), then the
\* return of JSONResponse(content=result).
predict_PersistUpdate ==
    /\ req.pc = "update"
    /\ LET u == doc_update(store, req.document_id,
                           [treatment |-> req.result.treatment])
       IN IF u.raised
          THEN /\ predict_except(req, u.exc)
               /\ history' = Disturbed(history)
          ELSE /\ store' = u.value
               /\ req' = [req EXCEPT !.pc = "done",
                                     !.response = http_response(Return(req.result))]
               /\ UNCHANGED <<bucket, advisor_log>>
               /\ history' = [Disturbed(history) EXCEPT
                                !.predictQuiet = ~Deleting(req.user_id)]
    /\ del' = IF del.pc = "done" THEN IdleDelete ELSE del
    /\ last_get' = NoGet
    /\ UNCHANGED arrived

\* document(document_id).update(...) raises for a reason of the store's.
predict_PersistUpdateFails ==
    /\ req.pc = "update"
    /\ predict_except(req, Exception("update", "update failed"))
    /\ UNCHANGED arrived
    /\ PredictStep

----------------------------------------------------------------------------
\* GET and DELETE /scanned_data/{user_id}.  The store answers their queries
\* and deletes; its failures are modelled in /predict/.

\* try: body; except Exception as e: raise HTTPException(500, prefix + str(e)).
\* An HTTPException raised by the body is an Exception too.
try_except(body, prefix) ==
    IF body.raised
    THEN Raise(HTTPException(500, <<prefix, str(body.exc)>>))
    ELSE body

NotFoundDetail == "No prediction data found for this user ID."

\* get_prediction over the collection as the query finds it.
get_prediction(user_id, docs) ==
    try_except(
        LET results == {to_dict_with_id(docs, i) : i \in where_user_id(docs, user_id)}
        IN IF results = {}
           THEN Raise(HTTPException(404, NotFoundDetail))
           ELSE Return(results),
        "Error fetching predictions: ")

\* A GET is served: one query, then the response.
Get(user_id) ==
    /\ last_get' = [user_id |-> user_id,
                    response |-> http_response(get_prediction(user_id, store))]
    /\ UNCHANGED <<arrived, req, store, bucket, advisor_log, del, history>>

\* The end of delete_prediction, once the stream is exhausted.
delete_result(deleted_count) ==
    try_except(
        IF deleted_count = 0
        THEN Raise(HTTPException(404, NotFoundDetail))
        ELSE Return([message |-> <<"Deleted ", deleted_count,
                                   " prediction(s) successfully.">>]),
        "Error deleting predictions: ")

\* A DELETE begins: the query for the user's documents.
DeleteQuery(user_id) ==
    /\ del.pc \in {"idle", "done"}
    /\ del' = [pc |-> "deleting", user_id |-> user_id,
               pending |-> where_user_id(store, user_id),
               deleted_count |-> 0, response |-> NoResponse]
    /\ history' = [deleteQuiet |-> req.pc \in {"idle", "done"},
                   deleteFound |-> Cardinality(where_user_id(store, user_id)),
                   predictQuiet |-> history.predictQuiet /\ req.user_id # user_id]
    /\ last_get' = NoGet
    /\ UNCHANGED <<arrived, req, store, bucket, advisor_log>>

\* One turn of the loop: doc.reference.delete(); deleted_count += 1.
DeleteDoc ==
    /\ del.pc = "deleting"
    /\ \E i \in del.pending :
         /\ store' = doc_delete(store, i)
         /\ del' = [del EXCEPT !.pending = del.pending \ {i},
                               !.deleted_count = del.deleted_count + 1]
    /\ last_get' = NoGet
    /\ UNCHANGED <<arrived, req, bucket, advisor_log, history>>

\* The stream is exhausted: 404 for a count of zero, the message otherwise.
DeleteRespond ==
    /\ del.pc = "deleting"
    /\ del.pending = {}
    /\ del' = [IdleDelete EXCEPT
                 !.pc = "done",
                 !.user_id = del.user_id,
                 !.response = http_response(delete_result(del.deleted_count))]
    /\ last_get' = NoGet
    /\ UNCHANGED <<arrived, req, store, bucket, advisor_log, history>>

----------------------------------------------------------------------------
Next ==
    \/ \E plant_type \in PlantTypes, user_id \in Users :
          predict_Validate(plant_type, user_id)
    \/ predict_Upload
    \/ predict_UploadFails
    \/ predict_Classify
    \/ predict_ClassifyFails
    \/ predict_PersistInitial
    \/ predict_PersistInitialFails
    \/ predict_Advise
    \/ predict_PersistUpdate
    \/ predict_PersistUpdateFails
    \/ \E user_id \in Users : Get(user_id)
    \/ \E user_id \in Users : DeleteQuery(user_id)
    \/ DeleteDoc
    \/ DeleteRespond

Spec == Init /\ [][Next]_vars

----------------------------------------------------------------------------
\* Properties

\* The text of the error in a 500 response of /predict/.
ErrorText(response) == response.content.detail[2]

\* The /predict/ request has ended in a 500 whose error text is one of texts.
FailedWith(texts) ==
    /\ req.pc = "done"
    /\ req.response.status_code = 500
    /\ ErrorText(req.response) \in {<<t>> : t \in texts}

\* The records of a successful GET.
GetResults == IF last_get.response.status_code = 200
              THEN last_get.response.content ELSE {}

\* The blob and the document of the /predict/ request being served.
Blob == uuid4(arrived, 1)
Doc  == uuid4(arrived, 2)

\* C1: a GET or a DELETE for a user with no record in the store answers 404.
C1_NoRecordsIs404 ==
    /\ [](\A u \in Users :
            (last_get.user_id = u /\ where_user_id(store, u) = {})
                => last_get.response.status_code = 404)
    /\ [][(del.pc = "deleting" /\ del'.pc = "done" /\ del.deleted_count = 0)
            => del'.response.status_code = 404]_vars

\* C2: /predict/ runs the classifier loaded for the plant type, the arg-max
\* index is a position of that plant's label list (no request ends with an
\* index error), and a stored disease is one of the plant's labels.
C2_OwnClassifier ==
    /\ req.pc \in {"persist", "advise", "update"} =>
          /\ req.model = LoadedModel[req.plant_type]
          /\ req.predicted_class < Len(class_names[req.plant_type])
    /\ ~FailedWith({"list index out of range"})
    /\ \A i \in DOMAIN store :
          \E k \in 1..Len(class_names[store[i].plant_type]) :
              store[i].disease = class_names[store[i].plant_type][k]

\* C3: a /predict/ for a plant type that is no key of class_names answers
\* 400 and uploads no blob, creates no record and calls no advisor.
C3_InvalidPlantRefused ==
    /\ []((req.pc # "idle" /\ req.plant_type \notin DOMAIN class_names) =>
            /\ req.pc = "done"
            /\ req.response.status_code = 400
            /\ Blob \notin bucket
            /\ Doc \notin DOMAIN store
            /\ arrived \notin advisor_log)
    /\ [][(arrived' = arrived + 1 /\ req'.plant_type \notin DOMAIN class_names)
            => (store' = store /\ bucket' = bucket /\ advisor_log' = advisor_log)]_vars

C3_Witness ==
    /\ req.pc = "done"
    /\ req.plant_type = "rose"
    /\ req.response.status_code = 400
    /\ store # <<>>

\* C4: whichever part of the advisory step fails, /predict/ answers 200 with
\* the fallback text as treatment, and the record holds the same text (the
\* treatment update itself working).
C4_AdvisorNeverRaises ==
    (/\ req.pc = "done"
     /\ req.advisor \in {"configure_raises", "model_raises",
                         "generate_raises", "text_raises"}
     /\ ~FailedWith({"update failed", "no document to update"}))
    => /\ req.response.status_code = 200
       /\ req.response.content.treatment = "Error generating treatment suggestion."
       /\ (history.predictQuiet =>
              store[req.document_id].treatment = req.response.content.treatment)

\* C5: a record's treatment is null from its creation until the treatment
\* update of the request that created it (a GET in between sees null); the
\* field changes at most once, from null to a string, by that update, and
\* no other field of a stored record changes.
C5_TreatmentSetOnce ==
    /\ [](req.pc \in {"advise", "update"} =>
            /\ req.document_id \in DOMAIN store
                  => store[req.document_id].treatment = None
            /\ \A rec \in GetResults :
                  rec.id = req.document_id => rec.treatment = None)
    /\ [][/\ \A i \in DOMAIN store' \ DOMAIN store : store'[i].treatment = None
          /\ \A i \in DOMAIN store \cap DOMAIN store' :
                store'[i] # store[i] =>
                    /\ req.pc = "update" /\ i = req.document_id
                    /\ store[i].treatment = None
                    /\ store'[i].treatment # None
                    /\ store'[i] = [store[i] EXCEPT !.treatment = store'[i].treatment]
         ]_vars

C5_Witness ==
    /\ req.pc = "update"
    /\ \E rec \in GetResults : rec.id = req.document_id /\ rec.treatment = None

\* C6: a DELETE for a user with N >= 1 records and no request beside it
\* answers 200 with the count N, leaves no record of the user, and a GET for
\* the user that follows answers 404.
C6_DeleteThenGet ==
    (del.pc = "done" /\ history.deleteQuiet /\ history.deleteFound >= 1) =>
        /\ del.response.status_code = 200
        /\ del.response.content.message[2] = history.deleteFound
        /\ where_user_id(store, del.user_id) = {}
        /\ last_get.user_id = del.user_id => last_get.response.status_code = 404

\* C7: after a /predict/ answered 200 for a user, with no DELETE for that
\* user beside or after it, a GET for the user answers 200 with a record
\* that has the response's values and a treatment that is not null.
C7_PredictThenGet ==
    (/\ req.pc = "done"
     /\ req.response.status_code = 200
     /\ history.predictQuiet
     /\ last_get.user_id = req.user_id)
    => /\ last_get.response.status_code = 200
       /\ \E rec \in GetResults :
             /\ rec.id = req.document_id
             /\ rec.user_id = req.response.content.user_id
             /\ rec.user_id = req.user_id
             /\ rec.plant_type = req.response.content.plant_type
             /\ rec.plant_type = req.plant_type
             /\ rec.disease = req.response.content.disease
             /\ rec.probability = req.response.content.probability
             /\ rec.image_url = req.response.content.image_url
             /\ rec.image_url = req.image_url
             /\ rec.scanned_data = req.response.content.scanned_data
             /\ rec.treatment # None

C7_Witness ==
    /\ req.pc = "done"
    /\ req.response.status_code = 200
    /\ history.predictQuiet
    /\ last_get.user_id = req.user_id
    /\ Cardinality(GetResults) = 2

\* C8: a /predict/ that fails after validation answers 500 and undoes
\* nothing: the failing step leaves the bucket and the store as they are,
\* the uploaded blob stays, and a record whose treatment update failed keeps
\* a null treatment.  Blobs never leave the bucket, and a record leaves the
\* store only by a DELETE for its user.
C8_NoRollback ==
    /\ [](FailedWith({"cannot fetch, decode or classify the image",
                      "list index out of range", "set failed", "advisor unavailable",
                      "update failed", "no document to update"})
            => Blob \in bucket)
    /\ [](FailedWith({"advisor unavailable", "update failed"})
            => (req.document_id \in DOMAIN store
                    => store[req.document_id].treatment = None))
    /\ [][/\ (req.pc \in {"upload", "classify", "persist", "advise", "update"}
                 /\ req'.pc = "done" /\ req'.response.status_code # 200)
              => /\ req'.response.status_code = 500
                 /\ store' = store
                 /\ bucket' = bucket
                 /\ req.pc \in {"advise", "update"} /\ req.document_id \in DOMAIN store
                       => req.document_id \in DOMAIN store'
          /\ bucket \subseteq bucket'
          /\ \A i \in DOMAIN store \ DOMAIN store' :
                del.pc = "deleting" /\ i \in del.pending
                    /\ store[i].user_id = del.user_id
         ]_vars

C8_Witness ==
    /\ FailedWith({"update failed"})
    /\ Blob \in bucket
    /\ req.document_id \in DOMAIN store
    /\ store[req.document_id].treatment = None

\* C9: DELETE and GET select by equality on user_id: a DELETE removes only
\* records of its user and leaves the others as they are, and a GET returns
\* only, and all, records of its user.
C9_ExactUserFilter ==
    /\ [](\A u \in Users : last_get.user_id = u =>
            /\ \A rec \in GetResults : rec.user_id = u
            /\ {rec.id : rec \in GetResults} = where_user_id(store, u))
    /\ [][/\ \A i \in DOMAIN store \ DOMAIN store' :
                del.pc = "deleting" /\ store[i].user_id = del.user_id
          /\ (del.pc = "deleting" /\ del'.deleted_count # del.deleted_count) =>
                \A i \in DOMAIN store :
                    store[i].user_id # del.user_id
                        => (i \in DOMAIN store' /\ store'[i] = store[i])
         ]_vars

C9_Witness ==
    /\ del.pc = "done"
    /\ del.response.status_code = 200
    /\ \E i \in DOMAIN store : store[i].user_id # del.user_id
    /\ last_get.user_id \in Users
    /\ last_get.user_id # del.user_id
    /\ GetResults # {}

\* C10: a record that a DELETE removed between the initial write and the
\* treatment update of its request is not created again by that update, the
\* request does not answer 200, and the record stays absent afterwards.
C10_NoResurrection ==
    [][/\ (req.pc \in {"advise", "update"} /\ req.document_id \notin DOMAIN store)
            => /\ req.document_id \notin DOMAIN store'
               /\ req'.response.status_code # 200
       /\ (req.pc = "done" /\ arrived' = arrived
                /\ req.document_id \notin DOMAIN store)
            => req.document_id \notin DOMAIN store'
      ]_vars

C10_Witness ==
    /\ FailedWith({"no document to update"})
    /\ req.document_id \notin DOMAIN store
    /\ del.pc = "done"
    /\ del.user_id = req.user_id
    /\ del.response.status_code = 200

====
